---- MODULE Spec2Model ----
(***************************************************************************)
(* The Sharpe-ratio script predicting-risk-return-on-financial-investment  *)
(* .py as a state machine: one action per assignment statement of the      *)
(* script, in program order (the plotting / describe() / info() calls read *)
(* the data and change nothing).                                           *)
(*                                                                         *)
(* Numbers.  The script computes on IEEE doubles.  A double is modelled as *)
(* a record [k, n, d]: k = "fin" is the exact rational n/d (d > 0, lowest  *)
(* terms), k = "nan", "pinf", "ninf" are NaN, +inf and -inf.  Arithmetic   *)
(* follows IEEE-754 for the special values (x/0, inf-inf, 0*inf, ...) and  *)
(* is exact on finite values: rounding error is not modelled.  Negative    *)
(* zero is not modelled; the only divisors that can be zero here are a     *)
(* price read from the file and a standard deviation, both +0.             *)
(*                                                                         *)
(* Square roots.  std() and sqrt(252) are irrational in general, so every  *)
(* value downstream of them (sd_excess_return, annual_factor, the two      *)
(* ratios) is stored as its signed square  x*|x|.  The map x |-> x*|x| is  *)
(* a bijection on the extended reals that preserves sign and commutes with *)
(* multiplication and division, so  a.div(b)  and  a.mul(b)  are computed  *)
(* exactly on the stored values.                                           *)
(***************************************************************************)
EXTENDS Integers, Sequences, FiniteSets

\* ----------------------------------------------------------------- bounds
MaxDate == 3        \* calendar days 1..MaxDate may appear in a file
MaxPrice == 3       \* prices 1..MaxPrice (and 0, -1, missing) may appear

\* ------------------------------------------------------- program constants
TradingDays == 252  \* annual_factor = np.sqrt(252)
Ddof == 1           \* pandas' default for DataFrame.std(): sample convention

Assets == {"Amazon", "Facebook"}
Dates == 1..MaxDate

\* ------------------------------------------------------------ IEEE doubles
Abs(i) == IF i < 0 THEN 0 - i ELSE i

RECURSIVE Gcd(_, _)
Gcd(a, b) == IF b = 0 THEN a ELSE Gcd(b, a % b)

NaN == [k |-> "nan", n |-> 0, d |-> 1]
PInf == [k |-> "pinf", n |-> 0, d |-> 1]
NInf == [k |-> "ninf", n |-> 0, d |-> 1]

\* the rational n/d, d # 0, in lowest terms with a positive denominator
Rat(n, d) ==
    LET g == Gcd(Abs(n), Abs(d))
        s == IF d < 0 THEN 0 - 1 ELSE 1
    IN  [k |-> "fin", n |-> (s * n) \div g, d |-> (s * d) \div g]

Fin(i) == [k |-> "fin", n |-> i, d |-> 1]

IsNaN(x) == x.k = "nan"
IsFin(x) == x.k = "fin"
IsInf(x) == x.k \in {"pinf", "ninf"}

\* -1, 0, 1 (NaN has no sign and is never asked for one)
Sign(x) ==
    CASE x.k = "pinf" -> 1
      [] x.k = "ninf" -> 0 - 1
      [] OTHER -> IF x.n > 0 THEN 1 ELSE IF x.n < 0 THEN 0 - 1 ELSE 0

Inf(s) == IF s > 0 THEN PInf ELSE NInf

FNeg(x) ==
    CASE x.k = "nan" -> NaN
      [] x.k = "pinf" -> NInf
      [] x.k = "ninf" -> PInf
      [] OTHER -> Rat(0 - x.n, x.d)

FAdd(x, y) ==
    IF IsNaN(x) \/ IsNaN(y) THEN NaN
    ELSE IF IsInf(x) /\ IsInf(y) THEN (IF x.k = y.k THEN x ELSE NaN)
    ELSE IF IsInf(x) THEN x
    ELSE IF IsInf(y) THEN y
    ELSE LET g == Gcd(x.d, y.d)
         IN  Rat(x.n * (y.d \div g) + y.n * (x.d \div g), (x.d \div g) * y.d)

FSub(x, y) == FAdd(x, FNeg(y))

\* (a/b)(c/d) on finite values, cancelling across before multiplying
RatMul(a, b, c, d) ==
    LET g == Gcd(Abs(a), Abs(d))
        h == Gcd(Abs(c), Abs(b))
    IN  Rat((a \div g) * (c \div h), (b \div h) * (d \div g))

FMul(x, y) ==
    IF IsNaN(x) \/ IsNaN(y) THEN NaN
    ELSE IF IsInf(x) \/ IsInf(y)
         THEN (IF Sign(x) * Sign(y) = 0 THEN NaN ELSE Inf(Sign(x) * Sign(y)))
    ELSE RatMul(x.n, x.d, y.n, y.d)

FDiv(x, y) ==
    IF IsNaN(x) \/ IsNaN(y) THEN NaN
    ELSE IF IsInf(x) /\ IsInf(y) THEN NaN
    ELSE IF IsInf(x) THEN (IF Sign(y) < 0 THEN FNeg(x) ELSE x)
    ELSE IF IsInf(y) THEN Fin(0)
    ELSE IF y.n = 0 THEN (IF x.n = 0 THEN NaN ELSE Inf(Sign(x)))
    ELSE RatMul(x.n, x.d, y.d, y.n)

\* x*|x|, the stored form of a value that is kept as its signed square
SignedSquare(x) ==
    CASE x.k = "fin" -> Rat(x.n * Abs(x.n), x.d * x.d)
      [] OTHER -> x

\* ------------------------------------------------------------ pandas tables
\* A table is a sequence of rows in file order; a row is [date, val].  In the
\* stock table val maps each asset column to a double, in the benchmark table
\* (one column, 'S&P 500') val is the double itself.

RowDates(t) == {t[i].date : i \in 1..Len(t)}

\* DataFrame.dropna(): a row goes when ANY of its columns is missing
StockRowHasNa(r) == \E a \in Assets : IsNaN(r.val[a])
BenchRowHasNa(r) == IsNaN(r.val)
KeepStockRow(r) == ~StockRowHasNa(r)
KeepBenchRow(r) == ~BenchRowHasNa(r)
DropNaStock(t) == SelectSeq(t, KeepStockRow)
DropNaBench(t) == SelectSeq(t, KeepBenchRow)

\* a pct_change() that forgets the division: the plain difference
PctChangeDifference(col) ==
    [i \in 1..Len(col) |->
        IF i = 1 THEN NaN ELSE FSub(col[i], col[i - 1])]

\* pct_change() of one column: row i against row i-1 IN ROW ORDER,
\* values / values.shift(1) - 1; the first row has no predecessor (NaN)
PctChange(col) ==
    [i \in 1..Len(col) |->
        IF i = 1 THEN NaN ELSE FSub(FDiv(col[i], col[i - 1]), Fin(1))]

StockColumn(t, a) == [i \in 1..Len(t) |-> t[i].val[a]]
BenchColumn(t) == [i \in 1..Len(t) |-> t[i].val]

StockPctChange(t) ==
    [i \in 1..Len(t) |->
        [date |-> t[i].date,
         val |-> [a \in Assets |-> PctChange(StockColumn(t, a))[i]]]]

BenchPctChange(t) ==
    [i \in 1..Len(t) |->
        [date |-> t[i].date, val |-> PctChange(BenchColumn(t))[i]]]

\* the value a table holds at index label d; NaN when the label is absent
StockAt(t, d, a) ==
    IF d \in RowDates(t)
    THEN (CHOOSE r \in {t[i] : i \in 1..Len(t)} : r.date = d).val[a]
    ELSE NaN
BenchAt(t, d) ==
    IF d \in RowDates(t)
    THEN (CHOOSE r \in {t[i] : i \in 1..Len(t)} : r.date = d).val
    ELSE NaN

\* DataFrame.sub(Series, axis=0): both operands are reindexed to the union of
\* their index labels (outer join), then subtracted label by label.  The
\* result is kept as a function of the label: mean() and std() do not depend
\* on the row order.
SubAligned(sr, sp) ==
    [d \in RowDates(sr) \cup RowDates(sp) |->
        [a \in Assets |-> FSub(StockAt(sr, d, a), BenchAt(sp, d))]]

\* labels of column a that hold a value (skipna=True)
Valid(er, a) == {d \in DOMAIN er : ~IsNaN(er[d][a])}

RECURSIVE SumOver(_, _, _)
SumOver(er, a, S) ==
    IF S = {} THEN Fin(0)
    ELSE LET d == CHOOSE x \in S : TRUE
         IN  FAdd(er[d][a], SumOver(er, a, S \ {d}))

\* nanmean: sum of the valid values / their count (0/0 = NaN when none)
Mean(er, a) ==
    FDiv(SumOver(er, a, Valid(er, a)), Fin(Cardinality(Valid(er, a))))

RECURSIVE SumSqDev(_, _, _, _)
SumSqDev(er, a, avg, S) ==
    IF S = {} THEN Fin(0)
    ELSE LET d == CHOOSE x \in S : TRUE
             dev == FSub(avg, er[d][a])
         IN  FAdd(FMul(dev, dev), SumSqDev(er, a, avg, S \ {d}))

\* nanvar with ddof: NaN when count <= ddof, else sum((avg - x)^2)/(count - ddof)
Var(er, a, ddof) ==
    LET S == Valid(er, a)
        count == Cardinality(S)
    IN  IF count <= ddof THEN NaN
        ELSE FDiv(SumSqDev(er, a, Mean(er, a), S), Fin(count - ddof))

\* a std() with ddof=0: the population convention
StdPopulation(er, a) == Var(er, a, 0)

\* std() = sqrt(var), stored as its signed square, which is var itself
Std(er, a) == Var(er, a, Ddof)

\* an annual factor that forgets the square root: 252
AnnualFactorNoSqrt == Fin(TradingDays * TradingDays)

\* np.sqrt(252), stored as its signed square
AnnualFactor == Fin(TradingDays)

\* -------------------------------------------------- the script as a function
\* excess_returns, and the two ratio Series, as functions of the two files
ExcessOf(sc, bc) ==
    SubAligned(StockPctChange(DropNaStock(sc)), BenchPctChange(DropNaBench(bc)))

DailyOf(sc, bc) ==
    LET er == ExcessOf(sc, bc)
    IN  [a \in Assets |-> FDiv(SignedSquare(Mean(er, a)), Std(er, a))]

AnnualOf(sc, bc) ==
    [a \in Assets |-> FMul(DailyOf(sc, bc)[a], AnnualFactor)]

\* ------------------------------------------------------------------- inputs
\* What the two files may hold.  Dates within a file are distinct; rows come
\* in any order; a cell is a price or missing.
Price(i) == Fin(i)
Prices == {Price(i) : i \in 1..MaxPrice}
LowPrices == {Price(1), Price(2)}
DirtyCells == {NaN, Price(0 - 1), Price(0)} \cup LowPrices

Injective(s) == \A i, j \in 1..Len(s) : s[i] = s[j] => i = j
DateSeqs == {s \in UNION {[1..n -> Dates] : n \in 0..MaxDate} : Injective(s)}
Increasing(s) == \A i, j \in 1..Len(s) : i < j => s[i] < s[j]
SortedDateSeqs == {s \in DateSeqs : Increasing(s)}
Chrono == {[i \in 1..n |-> i] : n \in 0..MaxDate}

StockRow(d, x, y) ==
    [date |-> d, val |-> [a \in Assets |-> IF a = "Amazon" THEN x ELSE y]]
StockTablesOver(ds, AC, FC) ==
    {[i \in 1..Len(ds) |-> StockRow(ds[i], f[i], g[i])] :
        f \in [1..Len(ds) -> AC], g \in [1..Len(ds) -> FC]}
BenchTablesOver(ds, BC) ==
    {[i \in 1..Len(ds) |-> [date |-> ds[i], val |-> f[i]]] :
        f \in [1..Len(ds) -> BC]}

\* both files cover days 1..n in order, every price in 1..MaxPrice
AlignedInputs ==
    UNION {StockTablesOver(ds, Prices, {Price(1)}) \X BenchTablesOver(ds, Prices) :
              ds \in Chrono}
\* one file in any row order over any set of days, the other sorted over any
\* set of days
ScrambledStockInputs ==
    (UNION {StockTablesOver(ds, LowPrices, {Price(1)}) : ds \in DateSeqs})
    \X (UNION {BenchTablesOver(ds, LowPrices) : ds \in SortedDateSeqs})
ScrambledBenchInputs ==
    (UNION {StockTablesOver(ds, LowPrices, {Price(1)}) : ds \in SortedDateSeqs})
    \X (UNION {BenchTablesOver(ds, LowPrices) : ds \in DateSeqs})
\* missing, zero and negative cells in one column of one of the files
DirtyStockInputs ==
    UNION {(StockTablesOver(ds, DirtyCells, {Price(1)})
               \cup StockTablesOver(ds, LowPrices, {NaN, Price(1)}))
              \X BenchTablesOver(ds, LowPrices) : ds \in Chrono}
DirtyBenchInputs ==
    UNION {StockTablesOver(ds, LowPrices, {Price(1)})
              \X BenchTablesOver(ds, DirtyCells) : ds \in Chrono}

Inputs ==
    AlignedInputs \cup ScrambledStockInputs \cup ScrambledBenchInputs
        \cup DirtyStockInputs \cup DirtyBenchInputs

\* ------------------------------------------------------------------- state
VARIABLES
    pc,                  \* the next statement of the script
    stock_csv,           \* ./input/stock_data.csv as parsed (rows in file order)
    benchmark_csv,       \* ./input/benchmark_data.csv as parsed
    stock_data, benchmark_data,
    stock_returns, sp_returns, excess_returns,
    avg_excess_return, sd_excess_return,
    daily_sharpe_ratio, annual_sharpe_ratio

vars == <<pc, stock_csv, benchmark_csv, stock_data, benchmark_data,
          stock_returns, sp_returns, excess_returns, avg_excess_return,
          sd_excess_return, daily_sharpe_ratio, annual_sharpe_ratio>>

\* a name the script has not assigned yet
Unset == <<>>

Init ==
    /\ pc = "read_stock"
    /\ \E in \in Inputs : stock_csv = in[1] /\ benchmark_csv = in[2]
    /\ stock_data = Unset
    /\ benchmark_data = Unset
    /\ stock_returns = Unset
    /\ sp_returns = Unset
    /\ excess_returns = Unset
    /\ avg_excess_return = Unset
    /\ sd_excess_return = Unset
    /\ daily_sharpe_ratio = Unset
    /\ annual_sharpe_ratio = Unset

\* stock_data = pd.read_csv(...).dropna()
ReadStock ==
    /\ pc = "read_stock"
    /\ stock_data' = DropNaStock(stock_csv)
    /\ pc' = "read_benchmark"
    /\ UNCHANGED <<stock_csv, benchmark_csv, benchmark_data, stock_returns,
                   sp_returns, excess_returns, avg_excess_return,
                   sd_excess_return, daily_sharpe_ratio, annual_sharpe_ratio>>

\* benchmark_data = pd.read_csv(...).dropna()
ReadBenchmark ==
    /\ pc = "read_benchmark"
    /\ benchmark_data' = DropNaBench(benchmark_csv)
    /\ pc' = "stock_returns"
    /\ UNCHANGED <<stock_csv, benchmark_csv, stock_data, stock_returns,
                   sp_returns, excess_returns, avg_excess_return,
                   sd_excess_return, daily_sharpe_ratio, annual_sharpe_ratio>>

\* stock_returns = stock_data.pct_change()
StockReturns ==
    /\ pc = "stock_returns"
    /\ stock_returns' = StockPctChange(stock_data)
    /\ pc' = "sp_returns"
    /\ UNCHANGED <<stock_csv, benchmark_csv, stock_data, benchmark_data,
                   sp_returns, excess_returns, avg_excess_return,
                   sd_excess_return, daily_sharpe_ratio, annual_sharpe_ratio>>

\* sp_returns = benchmark_data['S&P 500'].pct_change()
SpReturns ==
    /\ pc = "sp_returns"
    /\ sp_returns' = BenchPctChange(benchmark_data)
    /\ pc' = "excess_returns"
    /\ UNCHANGED <<stock_csv, benchmark_csv, stock_data, benchmark_data,
                   stock_returns, excess_returns, avg_excess_return,
                   sd_excess_return, daily_sharpe_ratio, annual_sharpe_ratio>>

\* excess_returns = stock_returns.sub(sp_returns, axis=0)
ExcessReturns ==
    /\ pc = "excess_returns"
    /\ excess_returns' = SubAligned(stock_returns, sp_returns)
    /\ pc' = "avg_excess_return"
    /\ UNCHANGED <<stock_csv, benchmark_csv, stock_data, benchmark_data,
                   stock_returns, sp_returns, avg_excess_return,
                   sd_excess_return, daily_sharpe_ratio, annual_sharpe_ratio>>

\* avg_excess_return = excess_returns.mean()
AvgExcessReturn ==
    /\ pc = "avg_excess_return"
    /\ avg_excess_return' = [a \in Assets |-> Mean(excess_returns, a)]
    /\ pc' = "sd_excess_return"
    /\ UNCHANGED <<stock_csv, benchmark_csv, stock_data, benchmark_data,
                   stock_returns, sp_returns, excess_returns,
                   sd_excess_return, daily_sharpe_ratio, annual_sharpe_ratio>>

\* sd_excess_return = excess_returns.std()
SdExcessReturn ==
    /\ pc = "sd_excess_return"
    /\ sd_excess_return' = [a \in Assets |-> Std(excess_returns, a)]
    /\ pc' = "daily_sharpe_ratio"
    /\ UNCHANGED <<stock_csv, benchmark_csv, stock_data, benchmark_data,
                   stock_returns, sp_returns, excess_returns,
                   avg_excess_return, daily_sharpe_ratio, annual_sharpe_ratio>>

\* daily_sharpe_ratio = avg_excess_return.div(sd_excess_return)
DailySharpeRatio ==
    /\ pc = "daily_sharpe_ratio"
    /\ daily_sharpe_ratio' =
          [a \in Assets |->
              FDiv(SignedSquare(avg_excess_return[a]), sd_excess_return[a])]
    /\ pc' = "annual_sharpe_ratio"
    /\ UNCHANGED <<stock_csv, benchmark_csv, stock_data, benchmark_data,
                   stock_returns, sp_returns, excess_returns,
                   avg_excess_return, sd_excess_return, annual_sharpe_ratio>>

\* annual_factor = np.sqrt(252)
\* annual_sharpe_ratio = daily_sharpe_ratio.mul(annual_factor)
AnnualSharpeRatio ==
    /\ pc = "annual_sharpe_ratio"
    /\ annual_sharpe_ratio' =
          [a \in Assets |-> FMul(daily_sharpe_ratio[a], AnnualFactor)]
    /\ pc' = "done"
    /\ UNCHANGED <<stock_csv, benchmark_csv, stock_data, benchmark_data,
                   stock_returns, sp_returns, excess_returns,
                   avg_excess_return, sd_excess_return, daily_sharpe_ratio>>

Next ==
    \/ ReadStock
    \/ ReadBenchmark
    \/ StockReturns
    \/ SpReturns
    \/ ExcessReturns
    \/ AvgExcessReturn
    \/ SdExcessReturn
    \/ DailySharpeRatio
    \/ AnnualSharpeRatio

Spec == Init /\ [][Next]_vars

\* ------------------------------------------------------------------ helpers
\* excess_returns has been assigned
AfterExcessReturns ==
    pc \in {"avg_excess_return", "sd_excess_return", "daily_sharpe_ratio",
            "annual_sharpe_ratio", "done"}
Done == pc = "done"

\* a double that is a number in the extended sense: finite or +-inf
IsNumber(x) == IsFin(x) \/ IsInf(x)

\* ---------------------------------------------------------------------- C1
\* what the script leaves in annual_sharpe_ratio when the standard deviation
\* is zero, for a negative, zero and positive mean excess return
ZeroVarianceOutcomes ==
    {FMul(FDiv(SignedSquare(Fin(m)), Fin(0)), AnnualFactor) : m \in (0 - 1)..1}

\* C1: for every asset whose excess-return series has standard deviation
\* zero, the result is an 'undefined' outcome that is no number: neither a
\* finite ratio nor an infinite one.
C1_ZeroDeviationIsUndefined ==
    Done => \A a \in Assets :
        sd_excess_return[a] = Fin(0) => ~IsNumber(annual_sharpe_ratio[a])

\* ---------------------------------------------------------------------- C2
NonPositive(x) == IsFin(x) /\ x.n <= 0
UsesNonPositivePrice(a) ==
    \/ \E i \in 1..Len(stock_data) : NonPositive(stock_data[i].val[a])
    \/ \E i \in 1..Len(benchmark_data) : NonPositive(benchmark_data[i].val)

\* C2: when a price the asset's computation reads (its own column or the
\* benchmark's, after the rows with a missing value are gone) is zero or
\* negative, the asset ends in an error outcome: no ratio that is a number
\* comes out of that price.
C2_NonPositivePriceIsRejected ==
    Done => \A a \in Assets :
        UsesNonPositivePrice(a) => ~IsNumber(annual_sharpe_ratio[a])

\* ---------------------------------------------------------------------- C3
\* C3: an asset with fewer than 2 valid overlapping return observations gets
\* an 'insufficient data' outcome: not a number, and not a value the script
\* also produces for a zero standard deviation.
C3_InsufficientDataIsDistinct ==
    Done => \A a \in Assets :
        Cardinality(Valid(excess_returns, a)) < 2 =>
            /\ ~IsNumber(annual_sharpe_ratio[a])
            /\ annual_sharpe_ratio[a] \notin ZeroVarianceOutcomes

\* ---------------------------------------------------------------------- C4
\* the date of the row pct_change() divides by for the row labelled d
\* (0: d is the first row, or absent)
PrevRowDate(t, d) ==
    IF \E i \in 2..Len(t) : t[i].date = d
    THEN t[(CHOOSE i \in 2..Len(t) : t[i].date = d) - 1].date
    ELSE 0
\* the latest date of S before d (0: none)
Predecessor(S, d) ==
    IF \E c \in S : c < d
    THEN CHOOSE c \in S : c < d /\ \A e \in S : e < d => e <= c
    ELSE 0
\* the dates left in both tables once the rows with a missing value are gone
CommonDates == RowDates(stock_data) \cap RowDates(benchmark_data)

\* C4: wherever an excess return is produced, the asset return and the
\* benchmark return at that date were both taken against the immediate
\* predecessor of the date in the common date domain of the two tables.
C4_AlignedBeforeDifferencing ==
    AfterExcessReturns =>
        \A d \in DOMAIN excess_returns : \A a \in Assets :
            ~IsNaN(excess_returns[d][a]) =>
                /\ PrevRowDate(stock_data, d) = Predecessor(CommonDates, d)
                /\ PrevRowDate(benchmark_data, d) = Predecessor(CommonDates, d)

\* ---------------------------------------------------------------------- C5
Bijections(n) == {p \in [1..n -> 1..n] : \A i, j \in 1..n : p[i] = p[j] => i = j}
Reorderings(t) == {[i \in 1..Len(t) |-> t[p[i]]] : p \in Bijections(Len(t))}

\* C5: the same rows in any other order, in either file, give every asset the
\* ratio this run gave it.
C5_RowOrderIrrelevant ==
    Done =>
        \A s2 \in Reorderings(stock_csv) : \A b2 \in Reorderings(benchmark_csv) :
            AnnualOf(s2, b2) = annual_sharpe_ratio

\* ---------------------------------------------------------------------- C6
\* the stock files that agree with sc on the dates, the row order and column
\* a, whatever the other column holds
SameColumn(sc, a) ==
    {[i \in 1..Len(sc) |->
        [date |-> sc[i].date,
         val |-> [b \in Assets |-> IF b = a THEN sc[i].val[a] ELSE g[i]]]] :
        g \in [1..Len(sc) -> {NaN, Price(0), Price(1)}]}
ColumnOf(er, a) == [d \in DOMAIN er |-> er[d][a]]

\* C6: a run on a stock file that agrees with this one on an asset's column
\* (and on the benchmark) gives that asset the same excess returns and the
\* same ratio, whatever the other asset's column holds.
C6_AssetsIndependent ==
    Done => \A a \in Assets : \A s2 \in SameColumn(stock_csv, a) :
        /\ ColumnOf(ExcessOf(s2, benchmark_csv), a) = ColumnOf(excess_returns, a)
        /\ AnnualOf(s2, benchmark_csv)[a] = annual_sharpe_ratio[a]

\* ---------------------------------------------------------------------- C7
\* C7: for every asset whose excess-return column holds N >= 2 values, the
\* squared standard deviation times N-1 is the sum of the squared deviations
\* of those N values from their mean (their sum over N), and the daily ratio
\* is that mean over that standard deviation.
C7_SampleStandardDeviation ==
    Done => \A a \in Assets :
        LET S == Valid(excess_returns, a)
            N == Cardinality(S)
            mean == FDiv(SumOver(excess_returns, a, S), Fin(N))
            ssq == SumSqDev(excess_returns, a, mean, S)
        IN  N >= 2 =>
              /\ avg_excess_return[a] = mean
              /\ FMul(sd_excess_return[a], Fin(N - 1)) = ssq
              /\ daily_sharpe_ratio[a]
                    = FDiv(SignedSquare(mean), FDiv(ssq, Fin(N - 1)))

\* an asset with two or more excess returns that vary: a ratio that is a
\* finite non-zero number, built on a positive standard deviation
C7_Witness ==
    /\ Done
    /\ \E a \in Assets :
          /\ Cardinality(Valid(excess_returns, a)) >= 2
          /\ IsFin(sd_excess_return[a]) /\ sd_excess_return[a].n > 0
          /\ IsFin(daily_sharpe_ratio[a]) /\ daily_sharpe_ratio[a].n # 0

\* ---------------------------------------------------------------------- C8
MaxScale == 2
\* the constants p and 1/p
Scales == {Rat(p, 1) : p \in 1..MaxScale} \cup {Rat(1, p) : p \in 1..MaxScale}
Scaled(col, c) == [i \in 1..Len(col) |-> FMul(col[i], c)]

\* C8: the returns held for every price column are the returns of that
\* column multiplied by any positive constant, at every row.
C8_ScaleInvariant ==
    pc = "excess_returns" => \A c \in Scales :
        /\ \A a \in Assets :
              PctChange(Scaled(StockColumn(stock_data, a), c))
                  = StockColumn(stock_returns, a)
        /\ PctChange(Scaled(BenchColumn(benchmark_data), c))
              = BenchColumn(sp_returns)

\* both return series computed, with a price that moved in each
C8_Witness ==
    /\ pc = "excess_returns"
    /\ \E i \in 1..Len(stock_returns) :
          IsFin(stock_returns[i].val["Amazon"])
              /\ stock_returns[i].val["Amazon"].n # 0
    /\ \E i \in 1..Len(sp_returns) :
          IsFin(sp_returns[i].val) /\ sp_returns[i].val.n # 0

\* ---------------------------------------------------------------------- C9
\* factors a caller might configure, as signed squares: sqrt(1), sqrt(52),
\* sqrt(252)
ConfigurableFactors == {Fin(1), Fin(52), Fin(TradingDays)}

Chronological(t) == \A i, j \in 1..Len(t) : i < j => t[i].date < t[j].date
\* the dates at which both the asset's return and the benchmark's hold a value
BothReturnsDefined(a) ==
    {d \in RowDates(stock_returns) \cap RowDates(sp_returns) :
        ~IsNaN(StockAt(stock_returns, d, a)) /\ ~IsNaN(BenchAt(sp_returns, d))}

\* C10: a price column of n >= 1 chronologically ordered observations yields
\* a return series whose first entry is undefined and whose other n-1 entries
\* are defined, entry i being (price[i] - price[i-1]) / price[i-1]; and the
\* mean and the standard deviation range over exactly the dates at which both
\* the asset's return and the benchmark's are defined.
C10_ReturnSeriesShape ==
    Done => \A a \in Assets :
        /\ (Len(stock_data) >= 1 /\ Chronological(stock_data)) =>
              /\ IsNaN(stock_returns[1].val[a])
              /\ \A i \in 2..Len(stock_data) :
                    /\ ~IsNaN(stock_returns[i].val[a])
                    /\ stock_returns[i].val[a]
                          = FDiv(FSub(stock_data[i].val[a],
                                      stock_data[i - 1].val[a]),
                                 stock_data[i - 1].val[a])
        /\ Valid(excess_returns, a) = BothReturnsDefined(a)

====
